---- MODULE Spec2Model ----
(***************************************************************************)
(* MoodTra / MindPal backend: the chat request pipeline.                   *)
(*                                                                         *)
(* Texts are sequences of one-character strings, so that trimming,         *)
(* truncation, case folding and joining are computed character by          *)
(* character as the Python code computes them.                             *)
(***************************************************************************)
EXTENDS Integers, Sequences, FiniteSets, TLC

(***************************************************************************)
(* Characters and Python string primitives                                 *)
(***************************************************************************)

\* str.isspace() characters used by str.strip() and str.split()
WS == {" ", "\n", "\t"}

\* string.punctuation (the members that occur in the modelled texts)
PUNCT == {"!", "'", ".", ",", "?", ":", "(", ")"}

UPPER == {"A", "B", "F", "H", "I", "S"}

\* str.lower() on one character
LowerChar(c) ==
  CASE c = "A" -> "a"
    [] c = "B" -> "b"
    [] c = "F" -> "f"
    [] c = "H" -> "h"
    [] c = "I" -> "i"
    [] c = "S" -> "s"
    [] OTHER -> c

\* str.lower()
Lower(s) == [i \in 1..Len(s) |-> LowerChar(s[i])]

RECURSIVE SkipWS(_, _)
\* index of the first non-whitespace character at or after i (Len(s)+1 if none)
SkipWS(s, i) ==
  IF i > Len(s) THEN i
  ELSE IF s[i] \in WS THEN SkipWS(s, i + 1) ELSE i

RECURSIVE SkipWSBack(_, _)
\* index of the last non-whitespace character at or before i (0 if none)
SkipWSBack(s, i) ==
  IF i < 1 THEN 0
  ELSE IF s[i] \in WS THEN SkipWSBack(s, i - 1) ELSE i

\* str.strip()
Strip(s) ==
  LET a == SkipWS(s, 1)
      b == SkipWSBack(s, Len(s))
  IN IF a > b THEN <<>> ELSE SubSeq(s, a, b)

RECURSIVE Join(_, _)
\* sep.join(parts)
Join(parts, sep) ==
  IF parts = <<>> THEN <<>>
  ELSE IF Len(parts) = 1 THEN parts[1]
  ELSE parts[1] \o sep \o Join(Tail(parts), sep)

RECURSIVE SplitFrom(_, _)
\* str.split() with no argument: the maximal runs of non-whitespace, from i
SplitFrom(s, i) ==
  LET a == SkipWS(s, i)
  IN IF a > Len(s) THEN <<>>
     ELSE LET ends == {k \in a..Len(s) :
                         s[k] \notin WS /\ (k = Len(s) \/ s[k + 1] \in WS)}
              e == CHOOSE k \in ends : \A j \in ends : k <= j
          IN <<SubSeq(s, a, e)>> \o SplitFrom(s, e + 1)

Split(s) == SplitFrom(s, 1)

\* str.translate(str.maketrans("", "", string.punctuation))
RemovePunct(s) == SelectSeq(s, LAMBDA c : c \notin PUNCT)

\* Python values that may be None: a str or None
PyStr(s) == [none |-> FALSE, s |-> s]
PyNone == [none |-> TRUE, s |-> <<>>]

\* the literal returned at pipeline.py line 118
FALLBACK ==
  <<"I","'","m"," ","s","o","r","r","y",","," ","I","'","m"," ","h","a","v",
    "i","n","g"," ","t","r","o","u","b","l","e"," ","g","e","n","e","r","a",
    "t","i","n","g"," ","a"," ","r","e","s","p","o","n","s","e","."," ","P",
    "l","e","a","s","e"," ","t","r","y"," ","a","g","a","i","n"," ","l","a",
    "t","e","r",".">>

(***************************************************************************)
(* Regular-expression helpers: \b<literal>\b, as re.search / re.sub use it *)
(***************************************************************************)

\* \w of Python's re for the modelled characters: letters (no digits or
\* underscore occur in the modelled texts)
IsWordChar(c) == c \notin WS /\ c \notin PUNCT

\* is position p of s (1..Len(s)) a word character; positions outside are not
WordAt(s, p) == p >= 1 /\ p <= Len(s) /\ IsWordChar(s[p])

\* \b between positions p and p+1 of s
BoundaryAfter(s, p) == WordAt(s, p) # WordAt(s, p + 1)

\* does \b key \b match s at start position p; ci: case-insensitive
MatchAt(s, p, key, ci) ==
  /\ Len(key) > 0
  /\ p >= 1
  /\ p + Len(key) - 1 <= Len(s)
  /\ \A j \in 1..Len(key) :
       IF ci THEN LowerChar(s[p + j - 1]) = LowerChar(key[j])
       ELSE s[p + j - 1] = key[j]
  /\ BoundaryAfter(s, p - 1)
  /\ BoundaryAfter(s, p + Len(key) - 1)

\* re.search(r"\b" + re.escape(key) + r"\b", s)
ReSearch(key, s) == \E p \in 1..Len(s) : MatchAt(s, p, key, FALSE)

RECURSIVE ReSubFrom(_, _, _, _, _)
\* the rest of re.sub from position i: leftmost non-overlapping matches
ReSubFrom(s, i, key, repl, starts) ==
  LET later == {p \in starts : p >= i}
  IN IF later = {} THEN SubSeq(s, i, Len(s))
     ELSE LET p == CHOOSE q \in later : \A r \in later : q <= r
          IN SubSeq(s, i, p - 1) \o repl
               \o ReSubFrom(s, p + Len(key), key, repl, starts)

\* re.sub(r"\b" + re.escape(key) + r"\b", repl, s, flags=re.IGNORECASE)
ReSubIgnoreCase(key, repl, s) ==
  ReSubFrom(s, 1, key, repl, {p \in 1..Len(s) : MatchAt(s, p, key, TRUE)})

(***************************************************************************)
(* MindPal_Pipeline: normalize_text, detect_and_map_slang                  *)
(***************************************************************************)

\* the entries of the contractions package that the modelled texts can hit:
\* <<contraction, expansion>>, matched on word boundaries, ignoring case
CONTRACTIONS ==
  << << <<"i", "'", "m">>, <<"I", " ", "a", "m">> >>,
     << <<"i", "m">>,      <<"I", " ", "a", "m">> >> >>

RECURSIVE FixFrom(_, _)
FixFrom(s, k) ==
  IF k > Len(CONTRACTIONS) THEN s
  ELSE FixFrom(ReSubIgnoreCase(CONTRACTIONS[k][1], CONTRACTIONS[k][2], s), k + 1)

\* contractions.fix(t)
ContractionsFix(s) == FixFrom(s, 1)

\* MindPal_Pipeline.normalize_text
normalize_text(text) ==
  LET t1 == Strip(Join(Split(text), <<" ">>))
      t2 == Lower(t1)
      t3 == RemovePunct(t2)
  IN ContractionsFix(t3)

RECURSIVE SlangFrom(_, _, _)
\* the loop of detect_and_map_slang over the keys of SLANG_MAP from entry k
SlangFrom(slang_map, text, k) ==
  IF k > Len(slang_map) THEN text
  ELSE LET s == slang_map[k][1]
           meaning == slang_map[k][2]
           replace == s \o <<" ", "(">> \o meaning \o <<")">>
       IN IF ReSearch(s, Lower(text))
          THEN SlangFrom(slang_map, ReSubIgnoreCase(s, replace, text), k + 1)
          ELSE SlangFrom(slang_map, text, k + 1)

\* MindPal_Pipeline.detect_and_map_slang; SLANG_MAP is the insertion-ordered
\* dict as a sequence of <<key, meaning>> (empty when the load failed)
detect_and_map_slang(slang_map, text) == SlangFrom(slang_map, text, 1)

RECURSIVE DictSet(_, _, _)
\* d[key] = val on an insertion-ordered dict held as a sequence of
\* <<key, value>>: a known key keeps its place, a new key goes last
DictSet(d, key, val) ==
  IF d = <<>> THEN << <<key, val>> >>
  ELSE IF d[1][1] = key THEN << <<key, val>> >> \o Tail(d)
  ELSE <<d[1]>> \o DictSet(Tail(d), key, val)

RECURSIVE SlangRows(_, _)
\* the loop over the dataset rows: rows without a Slang value are skipped
SlangRows(rows, slang_map) ==
  IF rows = <<>> THEN slang_map
  ELSE SlangRows(Tail(rows),
                 IF rows[1].Slang # <<>>
                 THEN DictSet(slang_map, Lower(rows[1].Slang), rows[1].Description)
                 ELSE slang_map)

\* variant: a dataset that cannot be loaded is replaced by a built-in entry
load_slang_dataset_builtin(ds) ==
  LET slang_map == IF ds.raises THEN << <<<<"f","i","r","e">>, <<"l","i","t">>>> >>
                   ELSE SlangRows(ds.rows, <<>>)
  IN [none |-> slang_map = <<>>, map |-> slang_map]

\* MindPal_Pipeline.load_slang_dataset for the outcome ds of load_dataset:
\* the mapping, or None when the load raised or no row had a key
load_slang_dataset(ds) ==
  LET slang_map == IF ds.raises THEN <<>> ELSE SlangRows(ds.rows, <<>>)
  IN [none |-> slang_map = <<>>, map |-> slang_map]

\* line 22: self.load_slang_dataset() or {}
slang_map_or_empty(loaded) == IF loaded.none THEN <<>> ELSE loaded.map

(***************************************************************************)
(* Program constants and the modelled environment                          *)
(***************************************************************************)

MAX_HISTORY_MESSAGES == 20
MAX_MSG_CHARS == 800
MAX_CHILD_MESSAGES == 3

\* the marker appended to a truncated message body
ELLIPSIS == <<" ", ".", ".", ".">>

\* the chat sessions (x-session-id values) and the server's worker threads
Sessions == {"s1", "s2"}
Workers == {"w1", "w2"}

\* number of chat requests the model lets the clients send
MaxRequests == 2

\* message_role as it is formatted into a context line
RoleText(role) ==
  IF role = "child" THEN <<"c", "h", "i", "l", "d">>
  ELSE <<"a", "s", "s", "i", "s", "t", "a", "n", "t">>

\* what load_dataset(...) can do: raise, or yield rows with the columns Slang
\* and Description (an absent Slang is the empty text)
DatasetFailed == [raises |-> TRUE, rows |-> <<>>]
DatasetLoaded ==
  [raises |-> FALSE,
   rows |-> << [Slang |-> <<"F", "i", "r", "e">>, Description |-> <<"c", "o", "o", "l">>],
               [Slang |-> <<>>, Description |-> <<"l", "i", "t">>] >>]

\* the SLANG_MAP built from the dataset when it loads: key.lower() -> Description
SLANG_DATA == slang_map_or_empty(load_slang_dataset(DatasetLoaded))

\* the labels of the classifier model that the modelled scores use, in the
\* order of the model's label ids
TAXONOMY == <<"joy", "sadness">>

RECURSIVE RankFrom(_, _)
\* the labels in todo (indexes of TAXONOMY) by descending score; among equal
\* scores the label with the smaller id comes first (the sort is stable)
RankFrom(scores, todo) ==
  IF todo = {} THEN <<>>
  ELSE LET i == CHOOSE a \in todo :
                  \A b \in todo :
                    \/ scores[TAXONOMY[a]] > scores[TAXONOMY[b]]
                    \/ scores[TAXONOMY[a]] = scores[TAXONOMY[b]] /\ a <= b
       IN << [label |-> TAXONOMY[i], score |-> scores[TAXONOMY[i]]] >>
            \o RankFrom(scores, todo \ {i})

\* the text-classification pipeline with top_k=None: every label with its
\* score, sorted by descending score
RankScores(scores) == RankFrom(scores, 1..Len(TAXONOMY))

\* what self.emotion_classifier(text) can do: raise, or return a list holding
\* one ranked list of {label, score} (top_k=None); scores in tenths
Ranked1 == RankScores([joy |-> 1, sadness |-> 9])
Ranked2 == RankScores([joy |-> 5, sadness |-> 5])
ClassifierOutcomes ==
  { [raises |-> TRUE,  value |-> <<>>],
    [raises |-> FALSE, value |-> <<>>],
    [raises |-> FALSE, value |-> << <<>> >>],
    [raises |-> FALSE, value |-> << Ranked1 >>],
    [raises |-> FALSE, value |-> << Ranked2 >>] }

\* what client.models.generate_content can do: raise, or return a response
\* whose .text is a str or None
GenOutcomes ==
  { [raises |-> TRUE,  text |-> PyNone],
    [raises |-> FALSE, text |-> PyNone],
    [raises |-> FALSE, text |-> PyStr(<<" ", "B", "r", "e", "a", "t", "h", "e", ".", "\n">>)] }

\* rows of strategy joined with strategy_emotion and emotion_label, in the
\* order the database returns them
STRATEGY_ROWS ==
  << [strategy_name |-> "box-breathing", emotion_name |-> "Sadness"],
     [strategy_name |-> "dance-break",   emotion_name |-> "Joy"],
     [strategy_name |-> "journaling",    emotion_name |-> "Sadness"] >>

\* func.lower on an emotion name
LowerName(n) ==
  CASE n = "Sadness" -> "sadness"
    [] n = "Joy" -> "joy"
    [] OTHER -> n

\* exceptions, as the type name and message the except block formats
Exc(type, msg) == [type |-> type, msg |-> msg]
DbError == Exc("OperationalError", "database unavailable")
NotNullError == Exc("IntegrityError", "null value in column message_text")
IndexErr == Exc("IndexError", "list index out of range")
ClassifierErr == Exc("RuntimeError", "classifier failed")
ModelLoadErr == Exc("OSError", "cannot load emotion model")
MissingKeyErr == Exc("RuntimeError", "Missing GOOGLE_API_KEY in environment variables.")

\* the requests the clients of the main specification send: x-session-id and
\* payload.message_text
ShortRequests ==
  { [sid |-> "s1", message_text |-> <<" ", "\n">>],
    [sid |-> "s1", message_text |-> <<" ", "I", "'", "m", " ", "S", "a", "d", "!">>],
    [sid |-> "s2", message_text |-> <<"s", "o", " ", "f", "i", "r", "e", " ">>] }

(***************************************************************************)
(* State                                                                   *)
(***************************************************************************)

VARIABLES
  env_key,    \* is GOOGLE_API_KEY set in the process environment
  pool,       \* the worker threads the server runs the handler on
  pipeline,   \* the module-level _pipeline (id 0: None)
  built,      \* how many MindPal_Pipeline objects have been constructed
  db,         \* committed rows of chat_message
  clock,      \* datetime.now(): strictly increasing
  started,    \* number of requests received so far
  budget,     \* number of requests the clients send in this run
  inputs,     \* the requests the clients may send in this run
  w,          \* per worker thread: the locals of chat_endpoint
  results,    \* per request id: HTTP status of its response (0: in flight)
  last,       \* the request that ended last: its response, what its handler did
  t_ds,       \* direct use of a pipeline object: what loading the dataset did
  t_map,      \* ... its SLANG_MAP
  t_op,       \* ... the method called last ("none" before the first call)
  t_in,       \* ... the argument of that call
  t_out,      \* ... what the call returned
  t_n,        \* ... number of calls made
  sess_status,  \* chat_session.status of each session (committed)
  closed_after, \* per session: the number of chat requests received before
                \* its status was last set to closed
  mood,         \* committed rows of mood_log
  mw,           \* per worker thread: the locals of a mood handler
  mood_n,       \* number of mood requests received so far
  mood_last,    \* the mood request answered last and its HTTP status
  invites,      \* committed rows of guardian_invite, in insertion order
  links,        \* committed rows of guardian_child_link
  acct_type,    \* account.account_type of each account (committed)
  now,          \* datetime.now(timezone.utc), in days
  iw,           \* per worker thread: the locals of an invite or link handler
  inv_n,        \* number of invite and link requests received so far
  inv_last      \* the invite or link request answered last and its response

tvars == <<t_ds, t_map, t_op, t_in, t_out, t_n>>

\* the state of the other endpoints of the API
svars == <<sess_status, closed_after>>
mvars == <<mood, mw, mood_n, mood_last>>
ivars == <<invites, links, acct_type, now, iw, inv_n, inv_last>>
avars == <<svars, mvars, ivars>>

\* the state of the chat endpoint
chatvars == <<env_key, pool, pipeline, built, db, clock, started, budget, inputs, w,
              results, last>>

vars == <<env_key, pool, pipeline, built, db, clock, started, budget, inputs, w, results,
          last, tvars, avars>>

NoPipeline == [id |-> 0, SLANG_MAP |-> <<>>]
NoPrompt == [emotion |-> <<>>, context |-> <<>>, message |-> <<>>, strategies |-> <<>>]
NoResponse == [status |-> 0, reply_text |-> <<>>, detail |-> <<>>]

\* no call of the classifier / of the generation service made yet
NoCls == [raises |-> FALSE, value |-> <<>>]
NoGen == [raises |-> FALSE, text |-> PyNone]

\* a worker thread between requests
Idle ==
  [ pc |-> "idle", rid |-> 0, sid |-> "none", payload |-> <<>>,
    message_text |-> <<>>, pending |-> {},
    history |-> <<>>, lines |-> <<>>, history_context |-> <<>>,
    child_history_context |-> <<>>,
    cls_input |-> <<>>, cls |-> NoCls, emotion |-> <<>>,
    top_emotion |-> "", strategies_string |-> <<>>,
    prompt |-> NoPrompt, gen |-> NoGen,
    reply_text |-> PyNone, response |-> NoResponse,
    stages |-> <<>>,
    flushes |-> 0, pipe_calls |-> 0, cls_calls |-> 0, lookups |-> 0,
    gen_calls |-> 0 ]

\* what is left of a request once the handler has returned or raised: the
\* request, the response, and the record of the calls the handler made
Outcome(rec) ==
  [ rid |-> rec.rid, payload |-> rec.payload, response |-> rec.response,
    stages |-> rec.stages,
    flushes |-> rec.flushes, pipe_calls |-> rec.pipe_calls,
    cls_calls |-> rec.cls_calls, lookups |-> rec.lookups,
    gen_calls |-> rec.gen_calls ]

(***************************************************************************)
(* Queries and context building of chat_endpoint                           *)
(***************************************************************************)

RECURSIVE OrderByTsDesc(_)
\* .order_by(desc(ChatMessage.message_ts))
OrderByTsDesc(rows) ==
  IF rows = {} THEN <<>>
  ELSE LET m == CHOOSE r \in rows : \A q \in rows : q.ts <= r.ts
       IN <<m>> \o OrderByTsDesc(rows \ {m})

\* .limit(n)
Limit(seq, n) == SubSeq(seq, 1, IF Len(seq) < n THEN Len(seq) ELSE n)

\* list(reversed(seq))
Reversed(seq) == [i \in 1..Len(seq) |-> seq[Len(seq) + 1 - i]]

\* variant: a session that commits on every flush
flush_durable_autocommit(row) == {row}

\* the rows a db.flush() makes durable before the transaction commits:
\* none, the session factory is created with autocommit=False
flush_durable(row) == {}

\* the rows a statement of a transaction sees: committed rows and its own
\* flushed rows
Visible(rec) == db \cup rec.pending

\* variant: the fetched rows are not reversed
history_rows_newest_first(rows, sid) ==
  Limit(OrderByTsDesc({r \in rows : r.sid = sid}), MAX_HISTORY_MESSAGES)

\* variant: the history query has no filter on session_id
history_rows_any_session(rows, sid) ==
  Reversed(Limit(OrderByTsDesc(rows), MAX_HISTORY_MESSAGES))

\* history_rows: the most recent rows of the session, chronological
history_rows(rows, sid) ==
  Reversed(Limit(OrderByTsDesc({r \in rows : r.sid = sid}),
                 MAX_HISTORY_MESSAGES))

\* variant: the query has no filter on message_role
child_history_rows_any_role(rows, sid) ==
  Reversed(Limit(OrderByTsDesc({r \in rows : r.sid = sid}),
                 MAX_CHILD_MESSAGES))

\* child_history_rows: the most recent child rows of the session, chronological
child_history_rows(rows, sid) ==
  Reversed(Limit(OrderByTsDesc({r \in rows : r.sid = sid /\ r.role = "child"}),
                 MAX_CHILD_MESSAGES))

\* variant: the body is trimmed but never cut
safe_msg_uncut(msg) == Strip(msg)

\* safe_msg: trimmed, and cut with the marker when longer than the cap
safe_msg(msg) ==
  LET t == Strip(msg)
  IN IF Len(t) > MAX_MSG_CHARS
     THEN SubSeq(t, 1, MAX_MSG_CHARS) \o ELLIPSIS
     ELSE t

\* lines of history_context: f"{role}: {safe_msg}"
history_lines(history) ==
  [i \in 1..Len(history) |->
     RoleText(history[i][1]) \o <<":", " ">> \o safe_msg(history[i][2])]

\* lines of child_history_context: f"{safe_msg}"
child_lines(child_history) ==
  [i \in 1..Len(child_history) |-> safe_msg(child_history[i])]

\* variant: the test is made on the untrimmed payload
is_empty_message_untrimmed(payload) == payload = <<>>

\* the test `if not message_text` on the trimmed message
is_empty_message(payload) == Strip(payload) = <<>>

\* variant: the classifier is given the normalized, slang-resolved message
classifier_input_normalized(rec) ==
  detect_and_map_slang(pipeline.SLANG_MAP, normalize_text(rec.message_text))

\* the text handed to emotion_detection
classifier_input(rec) == rec.child_history_context

(***************************************************************************)
(* MindPal_Pipeline.chat (AI/pipeline.py lines 68-120)                     *)
(***************************************************************************)

\* variant: the candidate list is left out of the prompt
compose_prompt_without_strategies(detected_emotion, history_context, processed_text, strategies) ==
  [emotion |-> detected_emotion, context |-> history_context,
   message |-> processed_text, strategies |-> <<>>]

\* lines 79-110: the prompt, as the values embedded in the fixed template
compose_prompt(detected_emotion, history_context, processed_text, strategies) ==
  [emotion |-> detected_emotion, context |-> history_context,
   message |-> processed_text, strategies |-> strategies]

\* variant: one retry after a failed attempt
generate_attempts_retry(gen) == IF gen.raises THEN 2 ELSE 1

\* lines 112-115: the attempts made on generate_content for one outcome gen
generate_attempts(gen) == 1

\* variant: the except clause returns nothing
chat_return_no_fallback(gen) == gen.text

\* lines 112-120: what chat returns for the outcome gen of generate_content
chat_return(gen) ==
  IF gen.raises THEN PyStr(FALLBACK)
  ELSE gen.text

\* the whole method: the locals it computes, in the order it computes them
chat(slang_map, text, detected_emotion, history_context, strategies, gen) ==
  LET t == normalize_text(text)
      processed_text == detect_and_map_slang(slang_map, t)
      prompt == compose_prompt(detected_emotion, history_context,
                               processed_text, strategies)
  IN [text |-> t, processed_text |-> processed_text, prompt |-> prompt,
      attempts |-> generate_attempts(gen), reply |-> chat_return(gen),
      stages |-> <<"Normalized", "SlangResolved", "PromptComposed",
                   "ReplyGenerated">>]

(***************************************************************************)
(* chat_endpoint (api/routers/chat.py), one action per step of the handler *)
(***************************************************************************)

\* the except block of chat_endpoint: rollback, HTTP 500 with the exception
ExceptBlock(rec, exc) ==
  [rec EXCEPT !.pc = "done", !.pending = {},
              !.response = [status |-> 500, reply_text |-> <<>>,
                            detail |-> <<"Internal error: ", exc.type, ": ", exc.msg>>]]

\* the worker's locals change; the request is still in flight
Step(wk, rec) ==
  /\ w' = [w EXCEPT ![wk] = rec]
  /\ UNCHANGED <<results, last>>

\* the worker's locals change; when rec is done the response is sent and the
\* worker thread is free again
StepOrEnd(wk, rec) ==
  IF rec.pc = "done"
  THEN /\ w' = [w EXCEPT ![wk] = Idle]
       /\ results' = [results EXCEPT ![rec.rid] = rec.response.status]
       /\ last' = Outcome(rec)
  ELSE Step(wk, rec)

\* lines 33-48: trim, reject an empty message, add and flush the child row
Receive(wk) ==
  /\ wk \in pool
  /\ w[wk].pc = "idle"
  /\ started < budget
  /\ \E req \in inputs, dbfail \in BOOLEAN :
       LET rid == started + 1
           message_text == Strip(req.message_text)
           base == [Idle EXCEPT !.rid = rid, !.sid = req.sid,
                                !.payload = req.message_text,
                                !.message_text = message_text]
           user_msg == [sid |-> req.sid, ts |-> clock, role |-> "child",
                        text |-> message_text, rid |-> rid]
           rec == IF is_empty_message(req.message_text)
                  THEN [base EXCEPT !.pc = "done",
                          !.response = [status |-> 400, reply_text |-> <<>>,
                                        detail |-> <<"Message cannot be empty.">>]]
                  ELSE IF dbfail
                  THEN ExceptBlock([base EXCEPT !.flushes = 1], DbError)
                  ELSE [base EXCEPT !.pending = {user_msg}, !.flushes = 1,
                                    !.pc = "history", !.stages = <<"Received">>]
       IN /\ w' = [w EXCEPT ![wk] = IF rec.pc = "done" THEN Idle ELSE rec]
          /\ results' = Append(results, rec.response.status)
          /\ last' = IF rec.pc = "done" THEN Outcome(rec) ELSE last
          /\ started' = rid
          /\ clock' = IF rec.pending = {} THEN clock ELSE clock + 1
          /\ db' = IF rec.pending = {} THEN db ELSE db \cup flush_durable(user_msg)
  /\ UNCHANGED <<tvars, avars>>
  /\ UNCHANGED <<env_key, pool, pipeline, built, budget, inputs>>

\* lines 50-68: the recent rows of the session, as history_context
FetchHistory(wk) ==
  /\ w[wk].pc = "history"
  /\ \E dbfail \in BOOLEAN :
       LET rec == w[wk]
           rows == history_rows(Visible(rec), rec.sid)
           history == [i \in 1..Len(rows) |-> <<rows[i].role, rows[i].text>>]
           lines == history_lines(history)
       IN StepOrEnd(wk,
            IF dbfail THEN ExceptBlock(rec, DbError)
            ELSE [rec EXCEPT !.history = history, !.lines = lines,
                             !.history_context = Join(lines, <<"\n">>),
                             !.pc = "child_history"])
  /\ UNCHANGED <<tvars, avars>>
  /\ UNCHANGED <<env_key, pool, pipeline, built, db, clock, started, budget, inputs>>

\* lines 70-90: the recent child rows of the session, as child_history_context
\* (history and lines are not read again)
FetchChildHistory(wk) ==
  /\ w[wk].pc = "child_history"
  /\ \E dbfail \in BOOLEAN :
       LET rec == [w[wk] EXCEPT !.history = <<>>, !.lines = <<>>]
           rows == child_history_rows(Visible(rec), rec.sid)
           child_history == [i \in 1..Len(rows) |-> rows[i].text]
       IN StepOrEnd(wk,
            IF dbfail THEN ExceptBlock(rec, DbError)
            ELSE [rec EXCEPT !.child_history_context =
                                Join(child_lines(child_history), <<"\n">>),
                             !.pc = "get_pipeline"])
  /\ UNCHANGED <<tvars, avars>>
  /\ UNCHANGED <<env_key, pool, pipeline, built, db, clock, started, budget, inputs>>

\* get_pipeline, lines 22-23 and 25: the test of the global, and the return
GetPipeline(wk) ==
  /\ w[wk].pc = "get_pipeline"
  /\ Step(wk, IF pipeline.id = 0
              THEN [w[wk] EXCEPT !.pipe_calls = @ + 1, !.pc = "construct"]
              ELSE [w[wk] EXCEPT !.pipe_calls = @ + 1, !.pc = "detect"])
  /\ UNCHANGED <<tvars, avars>>
  /\ UNCHANGED <<env_key, pool, pipeline, built, db, clock, started, budget, inputs>>

\* variant: the constructor goes on without a key and leaves the client unset
pipeline_init_keyless(key, ds, model_ok) ==
  LET slang_map == slang_map_or_empty(load_slang_dataset(ds))
  IN IF ~model_ok
     THEN [raises |-> TRUE, exc |-> ModelLoadErr,
           set |-> <<"model", "SLANG_MAP">>, SLANG_MAP |-> slang_map]
     ELSE [raises |-> FALSE, exc |-> ModelLoadErr,
           set |-> <<"model", "SLANG_MAP", "emotion_classifier">>,
           SLANG_MAP |-> slang_map]

\* MindPal_Pipeline.__init__ (pipeline.py lines 12-28) in an environment
\* where the key is set or not (key), load_dataset does ds and the classifier
\* model loads or not: the exception raised if any, the attributes set up to
\* that point, and the SLANG_MAP
pipeline_init(key, ds, model_ok) ==
  LET slang_map == slang_map_or_empty(load_slang_dataset(ds))
  IN IF ~key
     THEN [raises |-> TRUE, exc |-> MissingKeyErr, set |-> <<>>,
           SLANG_MAP |-> <<>>]
     ELSE IF ~model_ok
     THEN [raises |-> TRUE, exc |-> ModelLoadErr,
           set |-> <<"model", "client", "SLANG_MAP">>, SLANG_MAP |-> slang_map]
     ELSE [raises |-> FALSE, exc |-> ModelLoadErr,
           set |-> <<"model", "client", "SLANG_MAP", "emotion_classifier">>,
           SLANG_MAP |-> slang_map]

\* get_pipeline line 24: MindPal_Pipeline() and the assignment to the global
Construct(wk) ==
  /\ w[wk].pc = "construct"
  /\ \E ds \in {DatasetFailed, DatasetLoaded}, model_ok \in BOOLEAN :
       LET r == pipeline_init(env_key, ds, model_ok)
       IN IF r.raises
          THEN /\ StepOrEnd(wk, ExceptBlock(w[wk], r.exc))
               /\ UNCHANGED <<pipeline, built>>
          ELSE /\ pipeline' = [id |-> built + 1, SLANG_MAP |-> r.SLANG_MAP]
               /\ built' = built + 1
               /\ Step(wk, [w[wk] EXCEPT !.pc = "detect"])
  /\ UNCHANGED <<tvars, avars>>
  /\ UNCHANGED <<env_key, pool, db, clock, started, budget, inputs>>

\* variant: a failed classification is replaced by a default label
detect_emotion_default(rec, out) ==
  LET failed == out.raises \/ out.value = <<>> \/ out.value[1] = <<>>
      emotion == IF failed THEN << [label |-> "neutral", score |-> 0] >>
                 ELSE out.value[1]
  IN [rec EXCEPT !.emotion = emotion,
                 !.top_emotion = emotion[1].label,
                 !.stages = Append(@, "EmotionDetected"),
                 !.pc = "strategies"]

\* variant: the label is taken from the last entry of the ranking
detect_emotion_last(rec, out) ==
  IF out.raises THEN ExceptBlock(rec, ClassifierErr)
  ELSE IF out.value = <<>> THEN ExceptBlock(rec, IndexErr)
  ELSE IF out.value[1] = <<>> THEN ExceptBlock(rec, IndexErr)
  ELSE [rec EXCEPT !.emotion = out.value[1],
                   !.top_emotion = out.value[1][Len(out.value[1])].label,
                   !.stages = Append(@, "EmotionDetected"),
                   !.pc = "strategies"]

\* lines 92-93 with emotion_detection (pipeline.py lines 64-66): the locals
\* after the classifier call ended as out
detect_emotion(rec, out) ==
  IF out.raises THEN ExceptBlock(rec, ClassifierErr)
  ELSE IF out.value = <<>> THEN ExceptBlock(rec, IndexErr)
  ELSE IF out.value[1] = <<>> THEN ExceptBlock(rec, IndexErr)
  ELSE [rec EXCEPT !.emotion = out.value[1],
                   !.top_emotion = out.value[1][1].label,
                   !.stages = Append(@, "EmotionDetected"),
                   !.pc = "strategies"]

Detect(wk) ==
  /\ w[wk].pc = "detect"
  /\ \E out \in ClassifierOutcomes :
       StepOrEnd(wk, detect_emotion([w[wk] EXCEPT !.cls_calls = @ + 1,
                                        !.cls_input = classifier_input(w[wk]),
                                        !.cls = out],
                                    out))
  /\ UNCHANGED <<tvars, avars>>
  /\ UNCHANGED <<env_key, pool, pipeline, built, db, clock, started, budget, inputs>>

\* lines 95-111: the strategies of the top emotion, serialized
Strategies(wk) ==
  /\ w[wk].pc = "strategies"
  /\ \E dbfail \in BOOLEAN :
       LET rec == [w[wk] EXCEPT !.lookups = @ + 1]
           strategies ==
             SelectSeq(STRATEGY_ROWS,
                       LAMBDA r : LowerName(r.emotion_name)
                                    = LowerName(rec.top_emotion))
       IN StepOrEnd(wk,
            IF dbfail THEN ExceptBlock(rec, DbError)
            ELSE [rec EXCEPT
                    !.strategies_string =
                       [i \in 1..Len(strategies) |->
                          [n |-> i, name |-> strategies[i].strategy_name]],
                    !.stages = Append(@, "StrategiesResolved"),
                    !.pc = "chat"])
  /\ UNCHANGED <<tvars, avars>>
  /\ UNCHANGED <<env_key, pool, pipeline, built, db, clock, started, budget, inputs>>

\* line 114: get_pipeline().chat(...); the contexts are not read again
Chat(wk) ==
  /\ w[wk].pc = "chat"
  /\ \E gen \in GenOutcomes :
       LET rec == w[wk]
           r == chat(pipeline.SLANG_MAP, rec.message_text, rec.emotion,
                     rec.history_context, rec.strategies_string, gen)
       IN Step(wk, [rec EXCEPT !.gen = gen,
                               !.pipe_calls = @ + 1,
                               !.prompt = r.prompt,
                               !.gen_calls = @ + r.attempts,
                               !.reply_text = r.reply,
                               !.stages = @ \o r.stages,
                               !.history_context = <<>>,
                               !.child_history_context = <<>>,
                               !.cls_input = <<>>,
                               !.pc = "store"])
  /\ UNCHANGED <<tvars, avars>>
  /\ UNCHANGED <<env_key, pool, pipeline, built, db, clock, started, budget, inputs>>

\* lines 116-128: add and flush the assistant row, commit, reply
StoreReply(wk) ==
  /\ w[wk].pc = "store"
  /\ \E dbfail \in BOOLEAN :
       LET rec == [w[wk] EXCEPT !.flushes = @ + 1]
           assistant_msg == [sid |-> rec.sid, ts |-> clock, role |-> "assistant",
                             text |-> rec.reply_text.s, rid |-> rec.rid]
           ok == ~rec.reply_text.none /\ ~dbfail
       IN /\ StepOrEnd(wk,
               IF rec.reply_text.none THEN ExceptBlock(rec, NotNullError)
               ELSE IF dbfail THEN ExceptBlock(rec, DbError)
               ELSE [rec EXCEPT !.pending = {},
                       !.response = [status |-> 200,
                                     reply_text |-> rec.reply_text.s,
                                     detail |-> <<>>],
                       !.stages = Append(@, "Done"),
                       !.pc = "done"])
          /\ db' = IF ok THEN db \cup rec.pending \cup {assistant_msg} ELSE db
          /\ clock' = IF ok THEN clock + 1 ELSE clock
  /\ UNCHANGED <<tvars, avars>>
  /\ UNCHANGED <<env_key, pool, pipeline, built, started, budget, inputs>>

\* a worker thread that runs no mood handler
MoodIdle ==
  [pc |-> "idle", n |-> 0, account_id |-> "none", mood_date |-> "none",
   mood_emoji |-> "none", mood_intensity |-> 0, mood_id |-> 0]

\* no mood request answered yet
NoMoodResponse ==
  [n |-> 0, op |-> "none", account_id |-> "none", mood_date |-> "none",
   status |-> 0]

\* the mood endpoints are not called
NoMoodUse ==
  /\ mood = {}
  /\ mw = [wk \in Workers |-> MoodIdle]
  /\ mood_n = 0
  /\ mood_last = NoMoodResponse

\* the accounts: a guardian and two children whose e-mail addresses differ
\* in case only
Accounts == {"g1", "c1", "c2"}

\* account.email
ACCOUNT_EMAIL ==
  [a \in Accounts |-> IF a = "g1" THEN <<"g">>
                      ELSE IF a = "c1" THEN <<"a">> ELSE <<"A">>]

\* account.account_type at the start
ACCOUNT_TYPE == [a \in Accounts |-> IF a = "g1" THEN "guardian" ELSE "child"]

\* a worker thread that runs no invite or link handler
InviteIdle ==
  [pc |-> "idle", n |-> 0, account_id |-> "none", email |-> <<>>,
   invite |-> 0, other |-> "none", expire |-> {}, link |-> "none"]

\* no invite or link request answered yet
NoInviteResponse ==
  [n |-> 0, op |-> "none", account_id |-> "none", email |-> <<>>,
   invite |-> 0, other |-> "none", status |-> 0]

\* the invite and link endpoints are not called
NoInviteUse ==
  /\ invites = <<>>
  /\ links = {}
  /\ acct_type = ACCOUNT_TYPE
  /\ now = 0
  /\ iw = [wk \in Workers |-> InviteIdle]
  /\ inv_n = 0
  /\ inv_last = NoInviteResponse

\* the sessions are active and nobody changes them
NoSessionUse ==
  /\ sess_status = [s \in Sessions |-> "active"]
  /\ closed_after = [s \in Sessions |-> 0]

\* no endpoint other than the chat endpoint is called
NoOtherEndpoint ==
  /\ NoSessionUse
  /\ NoMoodUse
  /\ NoInviteUse

\* no pipeline object is used directly
NoDirectUse ==
  /\ t_ds = DatasetFailed
  /\ t_map = <<>>
  /\ t_op = "none"
  /\ t_in = <<>>
  /\ t_out = <<>>
  /\ t_n = 0

(***************************************************************************)
(* Specifications                                                          *)
(***************************************************************************)

InitCommon ==
  /\ pipeline = NoPipeline
  /\ built = 0
  /\ started = 0
  /\ w = [wk \in Workers |-> Idle]
  /\ results = <<>>
  /\ last = Outcome(Idle)

\* a fresh process on an empty chat_message table
Init ==
  /\ InitCommon
  /\ env_key \in BOOLEAN
  /\ pool = Workers
  /\ NoDirectUse
  /\ NoOtherEndpoint
  /\ db = {}
  /\ clock = 1
  /\ budget = MaxRequests
  /\ inputs = ShortRequests

Next ==
  \/ \E wk \in Workers : Receive(wk)
  \/ \E wk \in Workers : FetchHistory(wk)
  \/ \E wk \in Workers : FetchChildHistory(wk)
  \/ \E wk \in Workers : GetPipeline(wk)
  \/ \E wk \in Workers : Construct(wk)
  \/ \E wk \in Workers : Detect(wk)
  \/ \E wk \in Workers : Strategies(wk)
  \/ \E wk \in Workers : Chat(wk)
  \/ \E wk \in Workers : StoreReply(wk)

Spec == Init /\ [][Next]_vars

(***************************************************************************)
(* A single-threaded server started on a chat_message table that earlier   *)
(* requests have filled: long sessions and long messages                   *)
(***************************************************************************)

\* number of child/assistant exchanges session s1 holds at most at the start
MaxPreloadPairs == 11

\* number of chat requests sent on the filled table
MaxCtxRequests == 1

Rep(c, n) == [i \in 1..n |-> c]

ALPHA == <<"a", "b", "c", "d", "e", "f", "g", "h", "i", "j", "k", "l", "m">>

\* the text of the i-th stored message of session s1: child messages are
\* stored trimmed, assistant messages as the model returned them
PreText(i) ==
  CASE i = 3 -> Rep("a", MAX_MSG_CHARS + 1)
    [] i = MAX_HISTORY_MESSAGES -> <<" ">> \o Rep("b", MAX_MSG_CHARS) \o <<"\n">>
    [] i = MAX_HISTORY_MESSAGES + 1 -> Rep("c", MAX_MSG_CHARS)
    [] i = MAX_HISTORY_MESSAGES + 2 -> Rep("d", MAX_MSG_CHARS + 5)
    [] OTHER -> <<"m", ALPHA[((i - 1) % Len(ALPHA)) + 1]>>

\* the table after k exchanges on s1 and one exchange on s2
Preloaded(k) ==
  { [sid |-> "s1", ts |-> i,
     role |-> IF i % 2 = 1 THEN "child" ELSE "assistant",
     text |-> PreText(i), rid |-> 0] : i \in 1..(2 * k) }
  \cup { [sid |-> "s2", ts |-> 2 * k + 1, role |-> "child",
          text |-> <<"z", "z">>, rid |-> 0],
         [sid |-> "s2", ts |-> 2 * k + 2, role |-> "assistant",
          text |-> <<"o", "h">>, rid |-> 0] }

CtxRequests ==
  { [sid |-> "s1", message_text |-> <<"h", "e", "y">>],
    [sid |-> "s1", message_text |-> <<" ">> \o Rep("e", MAX_MSG_CHARS + 2)] }

InitCtx ==
  /\ InitCommon
  /\ env_key = TRUE
  /\ pool = {"w1"}
  /\ NoDirectUse
  /\ NoOtherEndpoint
  /\ \E k \in {0, MaxPreloadPairs - 2, MaxPreloadPairs - 1, MaxPreloadPairs} :
       /\ db = Preloaded(k)
       /\ clock = 2 * k + 3
  /\ budget = MaxCtxRequests
  /\ inputs = CtxRequests

SpecCtx == InitCtx /\ [][Next]_vars

(***************************************************************************)
(* A pipeline object used directly, as a caller of its methods does: the   *)
(* text methods of MindPal_Pipeline applied to texts, one call after the   *)
(* other, each on what the call before returned                            *)
(***************************************************************************)

\* number of pieces a raw text is made of at most
MaxTokens == 3

\* number of method calls made on the object
MaxTextCalls == 2

\* the pieces raw texts are made of
TOKENS ==
  { <<"f", "i", "r", "e">>, <<"F", "i", "r", "e">>,
    <<"f", "i", "r", "e", "w", "a", "l", "l">>,
    <<"s", "o">>, <<"c", "o", "o", "l">>, <<"I", "'", "m">>,
    <<" ">>, <<",">>, <<"\n">> }

RECURSIVE TextsUpTo(_)
\* the texts made of at most n pieces
TextsUpTo(n) ==
  IF n = 0 THEN {<<>>}
  ELSE LET shorter == TextsUpTo(n - 1)
       IN shorter \cup {t \o k : t \in shorter, k \in TOKENS}

RawTexts == TextsUpTo(MaxTokens)

\* further datasets: one whose rows have no key, one where a meaning holds
\* another key, one where a key is the first word of another key
DatasetNoKeys ==
  [raises |-> FALSE,
   rows |-> << [Slang |-> <<>>, Description |-> <<"l", "i", "t">>] >>]
DatasetNested ==
  [raises |-> FALSE,
   rows |-> << [Slang |-> <<"f", "i", "r", "e">>, Description |-> <<"c", "o", "o", "l">>],
               [Slang |-> <<"c", "o", "o", "l">>, Description |-> <<"o", "k">>] >>]
DatasetPhrase ==
  [raises |-> FALSE,
   rows |-> << [Slang |-> <<"s", "o">>, Description |-> <<"v", "e", "r", "y">>],
               [Slang |-> <<"s", "o", " ", "f", "i", "r", "e">>,
                Description |-> <<"t", "o", "p">>] >>]
DatasetOutcomes ==
  {DatasetFailed, DatasetNoKeys, DatasetLoaded, DatasetNested, DatasetPhrase}

\* MindPal_Pipeline(): the object is constructed, or the constructor raises
CallConstruct ==
  /\ t_op = "none"
  /\ \E ds \in DatasetOutcomes, model_ok \in BOOLEAN :
       LET r == pipeline_init(env_key, ds, model_ok)
       IN /\ t_ds' = ds
          /\ t_map' = r.SLANG_MAP
          /\ t_op' = IF r.raises THEN r.exc.type ELSE "__init__"
  /\ UNCHANGED <<t_in, t_out, t_n>>
  /\ UNCHANGED <<env_key, pool, pipeline, built, db, clock, started, budget,
                 inputs, w, results, last, avars>>

\* the methods an object that exists was called with; for chat, how the
\* generate_content call inside it ended
TextMethods ==
  {"__init__", "normalize_text", "detect_and_map_slang",
   "chat", "chat/except", "chat/None"}

\* a reasoning delimiter in a model output, as one symbol of the text
THINK_END == "</think>"

\* what generate_content can do when chat is called directly
DirectGenOutcomes ==
  GenOutcomes \cup
  { [raises |-> FALSE, text |-> PyStr(<<"O", "k", ".">>)],
    [raises |-> FALSE,
     text |-> PyStr(<<"h", "m", THINK_END, "s", "o", THINK_END, "\n", "O", "k", ".">>)] }

\* pipeline.normalize_text(text), text being what the last call returned
CallNormalize ==
  /\ t_op \in TextMethods
  /\ t_n < MaxTextCalls
  /\ t_op' = "normalize_text"
  /\ t_in' = t_out
  /\ t_out' = normalize_text(t_out)
  /\ t_n' = t_n + 1
  /\ UNCHANGED <<t_ds, t_map>>
  /\ UNCHANGED <<env_key, pool, pipeline, built, db, clock, started, budget,
                 inputs, w, results, last, avars>>

\* pipeline.detect_and_map_slang(text), text being what the last call returned
CallSlang ==
  /\ t_op \in TextMethods
  /\ t_n < MaxTextCalls
  /\ t_op' = "detect_and_map_slang"
  /\ t_in' = t_out
  /\ t_out' = detect_and_map_slang(t_map, t_out)
  /\ t_n' = t_n + 1
  /\ UNCHANGED <<t_ds, t_map>>
  /\ UNCHANGED <<env_key, pool, pipeline, built, db, clock, started, budget,
                 inputs, w, results, last, avars>>

\* pipeline.chat(text, ...), text being what the last call returned, with
\* an empty history and no strategies
CallChat ==
  /\ t_op \in TextMethods
  /\ t_n < MaxTextCalls
  /\ \E gen \in DirectGenOutcomes :
       LET r == chat(t_map, t_out, <<>>, <<>>, <<>>, gen)
       IN /\ t_op' = IF gen.raises THEN "chat/except"
                     ELSE IF gen.text.none THEN "chat/None" ELSE "chat"
          /\ t_in' = gen.text.s
          /\ t_out' = r.reply.s
  /\ t_n' = t_n + 1
  /\ UNCHANGED <<t_ds, t_map>>
  /\ UNCHANGED <<env_key, pool, pipeline, built, db, clock, started, budget,
                 inputs, w, results, last, avars>>

\* a process with the key set that is about to construct a pipeline object,
\* and a raw text to work on; no chat request is sent
InitText ==
  /\ InitCommon
  /\ env_key = TRUE
  /\ pool = {}
  /\ db = {}
  /\ clock = 1
  /\ budget = 0
  /\ inputs = {}
  /\ t_ds = DatasetFailed
  /\ t_map = <<>>
  /\ t_op = "none"
  /\ t_in = <<>>
  /\ t_out \in RawTexts
  /\ t_n = 0
  /\ NoOtherEndpoint

NextText ==
  \/ CallConstruct
  \/ CallNormalize
  \/ CallSlang
  \/ CallChat

SpecText == InitText /\ [][NextText]_vars

(***************************************************************************)
(* Chat sessions that their owner archives, closes and reopens             *)
(* (api/routers/chat_session.py) while chat requests are served            *)
(***************************************************************************)

\* number of chat requests sent while the sessions change status
MaxSessRequests == 2

\* chat_session.account_id of the two sessions
SESSION_ACCOUNT == [s \in Sessions |-> IF s = "s1" THEN "c1" ELSE "c2"]

\* the accounts that call PATCH /api/chat/sessions/{session_id}
SessionCallers == {"c1", "c2"}

\* ChatSessionUpdate.status: ^(active|archived|closed)$
SESSION_STATUS == {"active", "archived", "closed"}

\* update_session with payload.status set: 404 for a session of another
\* account, else the status is assigned, flushed, and committed by get_db
UpdateSession(account_id, session_id, status) ==
  /\ SESSION_ACCOUNT[session_id] = account_id
  /\ sess_status[session_id] # status
  /\ sess_status' = [sess_status EXCEPT ![session_id] = status]
  /\ closed_after' = IF status = "closed"
                     THEN [closed_after EXCEPT ![session_id] = started]
                     ELSE closed_after
  /\ UNCHANGED <<chatvars, tvars, mvars, ivars>>

InitSess ==
  /\ InitCommon
  /\ env_key = TRUE
  /\ pool = {"w1"}
  /\ NoDirectUse
  /\ NoOtherEndpoint
  /\ db = {}
  /\ clock = 1
  /\ budget = MaxSessRequests
  /\ inputs = ShortRequests

NextSess ==
  \/ Next
  \/ \E account_id \in SessionCallers, session_id \in Sessions,
        status \in SESSION_STATUS :
       UpdateSession(account_id, session_id, status)

SpecSess == InitSess /\ [][NextSess]_vars

(***************************************************************************)
(* The mood log (api/routers/mood.py): create_entry, update_entry and      *)
(* delete_entry of two accounts, served by two worker threads; each        *)
(* handler is a SELECT followed by a write that is flushed and committed   *)
(***************************************************************************)

\* number of mood requests the clients send
MaxMoodRequests == 4

MoodAccounts == {"c1", "c2"}
MoodDates == {"d1", "d2"}

\* emotion_label.emoji -> emotion_id; "shrug" has no row
EMOTION_LABEL == [smile |-> 1, frown |-> 2]
MoodEmojis == {"smile", "shrug"}

\* MoodCreate.mood_intensity: Field(ge=1, le=3)
MoodIntensities == {1, 3}

\* select(MoodLog).where(account_id == .., mood_date == ..)
mood_rows(table, account_id, mood_date) ==
  {r \in table : r.account_id = account_id /\ r.mood_date = mood_date}

\* variant: the table has no unique constraint
uq_mood_log_account_date_absent(table, row) == TRUE

\* UniqueConstraint("account_id", "mood_date"): may row be inserted
uq_mood_log_account_date(table, row) ==
  mood_rows(table, row.account_id, row.mood_date) = {}

\* the response is sent and the worker thread is free again
MoodRespond(wk, n, op, account_id, mood_date, status) ==
  /\ mw' = [mw EXCEPT ![wk] = MoodIdle]
  /\ mood_last' = [n |-> n, op |-> op, account_id |-> account_id,
                   mood_date |-> mood_date, status |-> status]

\* the handler goes on to its write
MoodGoOn(wk, rec) ==
  /\ mw' = [mw EXCEPT ![wk] = rec]
  /\ UNCHANGED mood_last

\* create_entry lines 74-85: the uniqueness check and the emoji lookup
CreateEntryCheck(wk) ==
  /\ mw[wk].pc = "idle"
  /\ mood_n < MaxMoodRequests
  /\ mood_n' = mood_n + 1
  /\ \E account_id \in MoodAccounts, mood_date \in MoodDates,
        mood_emoji \in MoodEmojis, mood_intensity \in MoodIntensities :
       IF mood_rows(mood, account_id, mood_date) # {}
       THEN MoodRespond(wk, mood_n', "create_entry", account_id, mood_date, 409)
       ELSE IF mood_emoji \notin DOMAIN EMOTION_LABEL
       THEN MoodRespond(wk, mood_n', "create_entry", account_id, mood_date, 400)
       ELSE MoodGoOn(wk, [pc |-> "create", n |-> mood_n',
                          account_id |-> account_id, mood_date |-> mood_date,
                          mood_emoji |-> mood_emoji,
                          mood_intensity |-> mood_intensity, mood_id |-> 0])
  /\ UNCHANGED mood
  /\ UNCHANGED <<chatvars, tvars, svars, ivars>>

\* create_entry lines 87-99: add, flush (the INSERT fails on the unique
\* constraint with IntegrityError, answered 500), refresh, commit
CreateEntryInsert(wk) ==
  /\ mw[wk].pc = "create"
  /\ LET rec == mw[wk]
         row == [mood_id |-> rec.n, account_id |-> rec.account_id,
                 mood_date |-> rec.mood_date, mood_emoji |-> rec.mood_emoji,
                 mood_intensity |-> rec.mood_intensity,
                 linked_emotion_id |-> EMOTION_LABEL[rec.mood_emoji]]
     IN IF uq_mood_log_account_date(mood, row)
        THEN /\ mood' = mood \cup {row}
             /\ MoodRespond(wk, rec.n, "create_entry", rec.account_id,
                            rec.mood_date, 201)
        ELSE /\ mood' = mood
             /\ MoodRespond(wk, rec.n, "create_entry", rec.account_id,
                            rec.mood_date, 500)
  /\ UNCHANGED mood_n
  /\ UNCHANGED <<chatvars, tvars, svars, ivars>>

\* update_entry lines 121-132: the row of the date, 404 without one, and the
\* emoji lookup
UpdateEntryCheck(wk) ==
  /\ mw[wk].pc = "idle"
  /\ mood_n < MaxMoodRequests
  /\ mood_n' = mood_n + 1
  /\ \E account_id \in MoodAccounts, mood_date \in MoodDates,
        mood_emoji \in MoodEmojis, mood_intensity \in MoodIntensities :
       LET found == mood_rows(mood, account_id, mood_date)
       IN IF found = {}
          THEN MoodRespond(wk, mood_n', "update_entry", account_id, mood_date, 404)
          ELSE IF mood_emoji \notin DOMAIN EMOTION_LABEL
          THEN MoodRespond(wk, mood_n', "update_entry", account_id, mood_date, 400)
          ELSE \E row \in found :
                 MoodGoOn(wk, [pc |-> "update", n |-> mood_n',
                               account_id |-> account_id, mood_date |-> mood_date,
                               mood_emoji |-> mood_emoji,
                               mood_intensity |-> mood_intensity,
                               mood_id |-> row.mood_id])
  /\ UNCHANGED mood
  /\ UNCHANGED <<chatvars, tvars, svars, ivars>>

\* update_entry lines 134-142: the UPDATE of the loaded row by primary key;
\* when the row is gone the flush raises StaleDataError, answered 500
UpdateEntryWrite(wk) ==
  /\ mw[wk].pc = "update"
  /\ LET rec == mw[wk]
         old == {r \in mood : r.mood_id = rec.mood_id}
         new == {[r EXCEPT !.mood_emoji = rec.mood_emoji,
                           !.mood_intensity = rec.mood_intensity,
                           !.linked_emotion_id = EMOTION_LABEL[rec.mood_emoji]]
                 : r \in old}
     IN IF old # {}
        THEN /\ mood' = (mood \ old) \cup new
             /\ MoodRespond(wk, rec.n, "update_entry", rec.account_id,
                            rec.mood_date, 200)
        ELSE /\ mood' = mood
             /\ MoodRespond(wk, rec.n, "update_entry", rec.account_id,
                            rec.mood_date, 500)
  /\ UNCHANGED mood_n
  /\ UNCHANGED <<chatvars, tvars, svars, ivars>>

\* delete_entry lines 162-169 and 173: the row of the date; 204 without one
DeleteEntryCheck(wk) ==
  /\ mw[wk].pc = "idle"
  /\ mood_n < MaxMoodRequests
  /\ mood_n' = mood_n + 1
  /\ \E account_id \in MoodAccounts, mood_date \in MoodDates :
       LET found == mood_rows(mood, account_id, mood_date)
       IN IF found = {}
          THEN MoodRespond(wk, mood_n', "delete_entry", account_id, mood_date, 204)
          ELSE \E row \in found :
                 MoodGoOn(wk, [pc |-> "delete", n |-> mood_n',
                               account_id |-> account_id, mood_date |-> mood_date,
                               mood_emoji |-> "none", mood_intensity |-> 0,
                               mood_id |-> row.mood_id])
  /\ UNCHANGED mood
  /\ UNCHANGED <<chatvars, tvars, svars, ivars>>

\* delete_entry lines 170-173: the DELETE of the loaded row by primary key,
\* committed; a row that is gone already only gives a warning
DeleteEntryWrite(wk) ==
  /\ mw[wk].pc = "delete"
  /\ mood' = {r \in mood : r.mood_id # mw[wk].mood_id}
  /\ MoodRespond(wk, mw[wk].n, "delete_entry", mw[wk].account_id,
                 mw[wk].mood_date, 204)
  /\ UNCHANGED mood_n
  /\ UNCHANGED <<chatvars, tvars, svars, ivars>>

\* no chat request is sent
NoChatUse ==
  /\ InitCommon
  /\ env_key = TRUE
  /\ pool = {}
  /\ db = {}
  /\ clock = 1
  /\ budget = 0
  /\ inputs = {}

InitMood ==
  /\ NoChatUse
  /\ NoDirectUse
  /\ NoSessionUse
  /\ NoMoodUse
  /\ NoInviteUse

NextMood ==
  \/ \E wk \in Workers : CreateEntryCheck(wk)
  \/ \E wk \in Workers : CreateEntryInsert(wk)
  \/ \E wk \in Workers : UpdateEntryCheck(wk)
  \/ \E wk \in Workers : UpdateEntryWrite(wk)
  \/ \E wk \in Workers : DeleteEntryCheck(wk)
  \/ \E wk \in Workers : DeleteEntryWrite(wk)

SpecMood == InitMood /\ [][NextMood]_vars

(***************************************************************************)
(* Invites and guardian-child links (api/routers/invites.py, links.py).    *)
(* Each handler runs on a worker thread in a transaction of its own: first *)
(* its SELECTs and the checks made on the loaded objects, then the flush   *)
(* and commit of what it changed (UPDATE by primary key of the attributes  *)
(* it assigned, INSERT of the objects it added). The tables guardian_invite *)
(* and guardian_child_link are declared outside the files at hand: columns *)
(* and defaults are those the handlers rely on.                            *)
(***************************************************************************)

\* number of invite and link requests sent to the two worker threads
MaxInviteRequests == 5

\* timedelta(days=7)
INVITE_TTL_DAYS == 7

\* the clock is observed every TickDays days, MaxTicks times at most
TickDays == 4
MaxTicks == 2

\* InviteCreateIn.invitee_email as sent by the guardian
InviteEmails == {<<"A">>}

INVITE_FINAL == {"accepted", "revoked", "expired"}

\* _expire_if_needed: the status the loaded invite has afterwards
expire_if_needed(invite, t) ==
  IF invite.status = "invited" /\ invite.expires_at < t
  THEN "expired" ELSE invite.status

\* get_db, except branch: rollback, the committed state stays
get_db_on_error(committed, dirty) == committed

\* guardian_invite row defaults of a new GuardianInvite(...)
NewInvite(guardian_id, invitee_email, expires_at) ==
  [guardian_id |-> guardian_id, invitee_email |-> invitee_email,
   status |-> "invited", expires_at |-> expires_at,
   accepted_account_id |-> "none"]

\* guardian_child_link row defaults of a new GuardianChildLink(...)
NewLink(guardian_id, child_id) ==
  [guardian_id |-> guardian_id, child_id |-> child_id, link_status |-> "active"]

\* guardian_child_link holds one row per (guardian_id, child_id): may row be
\* inserted
pk_guardian_child_link(table, row) ==
  \A l \in table : ~(l.guardian_id = row.guardian_id /\ l.child_id = row.child_id)

\* select(GuardianChildLink).where(guardian_id == .., child_id == ..)
link_rows(table, guardian_id, child_id) ==
  {l \in table : l.guardian_id = guardian_id /\ l.child_id = child_id}

\* UPDATE guardian_invite SET status = .. WHERE invite_id IN ids
SetInviteStatus(table, ids, status) ==
  [i \in 1..Len(table) |->
     IF i \in ids THEN [table[i] EXCEPT !.status = status] ELSE table[i]]

\* UPDATE guardian_child_link SET link_status = .. WHERE the primary key
SetLinkStatus(table, guardian_id, child_id, status) ==
  {IF l.guardian_id = guardian_id /\ l.child_id = child_id
   THEN [l EXCEPT !.link_status = status] ELSE l : l \in table}

\* the response is sent and the worker thread is free again
InviteRespond(wk, rec, op, status) ==
  /\ iw' = [iw EXCEPT ![wk] = InviteIdle]
  /\ inv_last' = [n |-> rec.n, op |-> op, account_id |-> rec.account_id,
                  email |-> rec.email, invite |-> rec.invite,
                  other |-> rec.other, status |-> status]

\* the handler goes on to its flush and commit
InviteGoOn(wk, rec) ==
  /\ iw' = [iw EXCEPT ![wk] = rec]
  /\ UNCHANGED inv_last

\* a request is taken by an idle worker thread
InviteStart(wk) ==
  /\ wk \in pool
  /\ iw[wk].pc = "idle"
  /\ inv_n < budget
  /\ inv_n' = inv_n + 1

InviteRequest(n, account_id) ==
  [InviteIdle EXCEPT !.n = n, !.account_id = account_id]

\* create_invite lines 33-69: the caller must be a guardian; the invites of
\* (guardian, lower-cased email) are loaded and expired in memory; 409 while
\* one is invited; 409 while the first accepted one (the query has no order)
\* was accepted by an account the guardian has an active link to
CreateInviteLoad(wk) ==
  /\ InviteStart(wk)
  /\ \E account_id \in Accounts, email \in InviteEmails :
       LET target_email == Lower(email)
           rec == [InviteRequest(inv_n', account_id) EXCEPT !.email = target_email]
           existing_invites ==
             {i \in 1..Len(invites) :
                /\ invites[i].guardian_id = account_id
                /\ invites[i].invitee_email = target_email}
           expired == {i \in existing_invites :
                         expire_if_needed(invites[i], now) # invites[i].status}
           pending == {i \in existing_invites :
                         expire_if_needed(invites[i], now) = "invited"}
           accepted == {i \in existing_invites : invites[i].status = "accepted"}
           go_on ==
             /\ InviteGoOn(wk, [rec EXCEPT !.pc = "create", !.expire = expired])
             /\ invites' = invites
           conflict ==
             /\ InviteRespond(wk, rec, "create_invite", 409)
             /\ invites' = get_db_on_error(
                              invites, SetInviteStatus(invites, expired, "expired"))
       IN IF acct_type[account_id] # "guardian"
          THEN /\ InviteRespond(wk, rec, "create_invite", 403)
               /\ invites' = invites
          ELSE IF pending # {}
          THEN conflict
          ELSE IF accepted = {}
          THEN go_on
          ELSE \E first \in accepted :
                 LET active_link ==
                       {l \in link_rows(links, account_id,
                                        invites[first].accepted_account_id) :
                          l.link_status = "active"}
                 IN IF invites[first].accepted_account_id # "none"
                       /\ active_link # {}
                    THEN conflict
                    ELSE go_on
  /\ UNCHANGED <<links, acct_type, now>>
  /\ UNCHANGED <<chatvars, tvars, svars, mvars>>

\* create_invite lines 71-96: the new GuardianInvite is added; the flush
\* writes it and the expired invites, get_db commits
CreateInviteInsert(wk) ==
  /\ iw[wk].pc = "create"
  /\ LET rec == iw[wk]
         inv == NewInvite(rec.account_id, rec.email, now + INVITE_TTL_DAYS)
     IN /\ invites' = Append(SetInviteStatus(invites, rec.expire, "expired"), inv)
        /\ InviteRespond(wk, [rec EXCEPT !.invite = Len(invites) + 1],
                         "create_invite", 200)
  /\ UNCHANGED <<links, acct_type, now, inv_n>>
  /\ UNCHANGED <<chatvars, tvars, svars, mvars>>

\* list_invites lines 105-120: the caller's invites are loaded and expired in
\* memory; the answer is made from them
ListInvitesLoad(wk) ==
  /\ InviteStart(wk)
  /\ \E account_id \in Accounts :
       LET rec == InviteRequest(inv_n', account_id)
           mine == {i \in 1..Len(invites) : invites[i].guardian_id = account_id}
           expired == {i \in mine :
                         expire_if_needed(invites[i], now) # invites[i].status}
       IN IF expired = {}
          THEN InviteRespond(wk, rec, "list_invites", 200)
          ELSE InviteGoOn(wk, [rec EXCEPT !.pc = "list", !.expire = expired])
  /\ UNCHANGED <<invites, links, acct_type, now>>
  /\ UNCHANGED <<chatvars, tvars, svars, mvars>>

\* list_invites, after the return: get_db commits the expired invites
ListInvitesCommit(wk) ==
  /\ iw[wk].pc = "list"
  /\ invites' = SetInviteStatus(invites, iw[wk].expire, "expired")
  /\ InviteRespond(wk, iw[wk], "list_invites", 200)
  /\ UNCHANGED <<links, acct_type, now, inv_n>>
  /\ UNCHANGED <<chatvars, tvars, svars, mvars>>

\* accept_invite lines 129-152: the invite of the token (404 without one),
\* expired in memory, 409 unless invited; the caller's account becomes a
\* child account; 403 when the e-mail addresses differ; the link of
\* (inviting guardian, caller) is loaded. A response made by raising is
\* followed by the rollback of get_db
AcceptInviteLoad(wk) ==
  /\ InviteStart(wk)
  /\ \E account_id \in Accounts, token \in 0..Len(invites) :
       LET rec == [InviteRequest(inv_n', account_id) EXCEPT !.invite = token]
       IN IF token = 0
          THEN /\ InviteRespond(wk, rec, "accept_invite", 404)
               /\ UNCHANGED <<invites, acct_type>>
          ELSE
            LET invite == invites[token]
                status == expire_if_needed(invite, now)
                expired == SetInviteStatus(invites, {token}, status)
                as_child == [acct_type EXCEPT ![account_id] = "child"]
                link == link_rows(links, invite.guardian_id, account_id)
            IN IF status # "invited"
               THEN /\ InviteRespond(wk, rec, "accept_invite", 409)
                    /\ invites' = get_db_on_error(invites, expired)
                    /\ UNCHANGED acct_type
               ELSE IF Lower(invite.invitee_email) # Lower(ACCOUNT_EMAIL[account_id])
               THEN /\ InviteRespond(wk, rec, "accept_invite", 403)
                    /\ acct_type' = get_db_on_error(acct_type, as_child)
                    /\ UNCHANGED invites
               ELSE /\ InviteGoOn(wk,
                         [rec EXCEPT !.pc = "accept",
                                     !.other = invite.guardian_id,
                                     !.link = IF link = {} THEN "none"
                                              ELSE (CHOOSE l \in link : TRUE).link_status])
                    /\ UNCHANGED <<invites, acct_type>>
  /\ UNCHANGED <<links, now>>
  /\ UNCHANGED <<chatvars, tvars, svars, mvars>>

\* accept_invite lines 153-182: a revoked link is set active, a missing one
\* is added, the invite becomes accepted by the caller; flush and commit. The
\* INSERT of a link whose pair has a row by now fails the flush (IntegrityError,
\* answered 500 after the rollback)
AcceptInviteCommit(wk) ==
  /\ iw[wk].pc = "accept"
  /\ LET rec == iw[wk]
         fresh == NewLink(rec.other, rec.account_id)
         accepted == [i \in 1..Len(invites) |->
                        IF i = rec.invite
                        THEN [invites[i] EXCEPT !.status = "accepted",
                                                !.accepted_account_id = rec.account_id]
                        ELSE invites[i]]
         as_child == [acct_type EXCEPT ![rec.account_id] = "child"]
     IN IF rec.link = "none" /\ ~pk_guardian_child_link(links, fresh)
        THEN /\ InviteRespond(wk, rec, "accept_invite", 500)
             /\ invites' = get_db_on_error(invites, accepted)
             /\ acct_type' = get_db_on_error(acct_type, as_child)
             /\ UNCHANGED links
        ELSE /\ InviteRespond(wk, rec, "accept_invite", 200)
             /\ invites' = accepted
             /\ acct_type' = as_child
             /\ links' = CASE rec.link = "none" -> links \cup {fresh}
                           [] rec.link = "revoked" ->
                                SetLinkStatus(links, rec.other, rec.account_id, "active")
                           [] OTHER -> links
  /\ UNCHANGED <<now, inv_n>>
  /\ UNCHANGED <<chatvars, tvars, svars, mvars>>

\* revoke_invite lines 191-195: 404 for an unknown invite or one of another
\* guardian; an invite that is accepted, revoked or expired is returned as
\* it is
RevokeInviteLoad(wk) ==
  /\ InviteStart(wk)
  /\ \E account_id \in Accounts, invite_id \in 0..Len(invites) :
       LET rec == [InviteRequest(inv_n', account_id) EXCEPT !.invite = invite_id]
       IN IF invite_id = 0
          THEN InviteRespond(wk, rec, "revoke_invite", 404)
          ELSE IF invites[invite_id].guardian_id # account_id
          THEN InviteRespond(wk, rec, "revoke_invite", 404)
          ELSE IF invites[invite_id].status \in INVITE_FINAL
          THEN InviteRespond(wk, rec, "revoke_invite", 200)
          ELSE InviteGoOn(wk, [rec EXCEPT !.pc = "revoke_invite"])
  /\ UNCHANGED <<invites, links, acct_type, now>>
  /\ UNCHANGED <<chatvars, tvars, svars, mvars>>

\* revoke_invite lines 195-205: status = "revoked" is flushed and committed
RevokeInviteCommit(wk) ==
  /\ iw[wk].pc = "revoke_invite"
  /\ invites' = SetInviteStatus(invites, {iw[wk].invite}, "revoked")
  /\ InviteRespond(wk, iw[wk], "revoke_invite", 200)
  /\ UNCHANGED <<links, acct_type, now, inv_n>>
  /\ UNCHANGED <<chatvars, tvars, svars, mvars>>

\* revoke_link lines 65-72: the active link of (caller, child), 404 without
RevokeLinkLoad(wk) ==
  /\ InviteStart(wk)
  /\ \E account_id \in Accounts, child_id \in Accounts :
       LET rec == [InviteRequest(inv_n', account_id) EXCEPT !.other = child_id]
           link == {l \in link_rows(links, account_id, child_id) :
                      l.link_status = "active"}
       IN IF link = {}
          THEN InviteRespond(wk, rec, "revoke_link", 404)
          ELSE InviteGoOn(wk, [rec EXCEPT !.pc = "revoke_link"])
  /\ UNCHANGED <<invites, links, acct_type, now>>
  /\ UNCHANGED <<chatvars, tvars, svars, mvars>>

\* revoke_link lines 73-75: link_status = "revoked", committed by get_db
RevokeLinkCommit(wk) ==
  /\ iw[wk].pc = "revoke_link"
  /\ links' = SetLinkStatus(links, iw[wk].account_id, iw[wk].other, "revoked")
  /\ InviteRespond(wk, iw[wk], "revoke_link", 200)
  /\ UNCHANGED <<invites, acct_type, now, inv_n>>
  /\ UNCHANGED <<chatvars, tvars, svars, mvars>>

\* child_unlink_guardian lines 87-98: the caller must be a child (403); the
\* active link of (guardian, caller), 404 without
ChildUnlinkLoad(wk) ==
  /\ InviteStart(wk)
  /\ \E account_id \in Accounts, guardian_id \in Accounts :
       LET rec == [InviteRequest(inv_n', account_id) EXCEPT !.other = guardian_id]
           link == {l \in link_rows(links, guardian_id, account_id) :
                      l.link_status = "active"}
       IN IF acct_type[account_id] # "child"
          THEN InviteRespond(wk, rec, "child_unlink_guardian", 403)
          ELSE IF link = {}
          THEN InviteRespond(wk, rec, "child_unlink_guardian", 404)
          ELSE InviteGoOn(wk, [rec EXCEPT !.pc = "unlink"])
  /\ UNCHANGED <<invites, links, acct_type, now>>
  /\ UNCHANGED <<chatvars, tvars, svars, mvars>>

\* child_unlink_guardian lines 99-101: link_status = "revoked", committed
ChildUnlinkCommit(wk) ==
  /\ iw[wk].pc = "unlink"
  /\ links' = SetLinkStatus(links, iw[wk].other, iw[wk].account_id, "revoked")
  /\ InviteRespond(wk, iw[wk], "child_unlink_guardian", 200)
  /\ UNCHANGED <<invites, acct_type, now, inv_n>>
  /\ UNCHANGED <<chatvars, tvars, svars, mvars>>

\* days pass, between requests (a handler takes no days)
Tick ==
  /\ \A wk \in Workers : iw[wk].pc = "idle"
  /\ now < MaxTicks * TickDays
  /\ now' = now + TickDays
  /\ UNCHANGED <<invites, links, acct_type, iw, inv_n, inv_last>>
  /\ UNCHANGED <<chatvars, tvars, svars, mvars>>

\* a guardian and two children on empty tables, two worker threads
InitInvite ==
  /\ InitCommon
  /\ env_key = TRUE
  /\ pool = Workers
  /\ db = {}
  /\ clock = 1
  /\ budget = MaxInviteRequests
  /\ inputs = {}
  /\ NoDirectUse
  /\ NoSessionUse
  /\ NoMoodUse
  /\ NoInviteUse

NextInvite ==
  \/ \E wk \in Workers : CreateInviteLoad(wk)
  \/ \E wk \in Workers : CreateInviteInsert(wk)
  \/ \E wk \in Workers : ListInvitesLoad(wk)
  \/ \E wk \in Workers : ListInvitesCommit(wk)
  \/ \E wk \in Workers : AcceptInviteLoad(wk)
  \/ \E wk \in Workers : AcceptInviteCommit(wk)
  \/ \E wk \in Workers : RevokeInviteLoad(wk)
  \/ \E wk \in Workers : RevokeInviteCommit(wk)
  \/ \E wk \in Workers : RevokeLinkLoad(wk)
  \/ \E wk \in Workers : RevokeLinkCommit(wk)
  \/ \E wk \in Workers : ChildUnlinkLoad(wk)
  \/ \E wk \in Workers : ChildUnlinkCommit(wk)
  \/ Tick

SpecInvite == InitInvite /\ [][NextInvite]_vars

\* the same endpoints served by one worker thread: requests run one after
\* the other
MaxSeqInviteRequests == 6

InitInviteSeq ==
  /\ InitCommon
  /\ env_key = TRUE
  /\ pool = {"w1"}
  /\ db = {}
  /\ clock = 1
  /\ budget = MaxSeqInviteRequests
  /\ inputs = {}
  /\ NoDirectUse
  /\ NoSessionUse
  /\ NoMoodUse
  /\ NoInviteUse

SpecInviteSeq == InitInviteSeq /\ [][NextInvite]_vars

(***************************************************************************)
(* Properties                                                              *)
(***************************************************************************)

Range(seq) == {seq[i] : i \in 1..Len(seq)}

IsPrefix(a, b) == Len(a) <= Len(b) /\ SubSeq(b, 1, Len(a)) = a

\* workers whose handler is running
InFlight == {wk \in Workers : w[wk].pc # "idle"}

\* the classifier call raised or returned no prediction
ClsFailed(out) == out.raises \/ out.value = <<>> \/ out.value[1] = <<>>

\* C1: whenever chat(...) runs and the generate_content call raises, chat
\* returns (the handler goes on to store the reply) and what it returns is
\* exactly the fallback string.
C1_FallbackOnGenerationError ==
  [][\A wk \in Workers :
       (w[wk].pc = "chat" /\ w'[wk] # w[wk]) =>
         /\ w'[wk].pc = "store"
         /\ w'[wk].gen.raises => w'[wk].reply_text = PyStr(FALLBACK)]_vars

C1_Witness ==
  \E wk \in Workers :
    /\ w[wk].pc = "store"
    /\ w[wk].gen.raises
    /\ w[wk].reply_text = PyStr(FALLBACK)

\* C2 (as stated): every request that got past the empty-message check and
\* stored its child message is answered with status 200 and a reply (generated
\* or fallback), and the response carries no exception type or message.
C2_ReplyOrFallbackOnly ==
  (last.rid # 0 /\ last.stages # <<>>) =>
    /\ last.response.status = 200
    /\ last.response.detail = <<>>

\* the order of stages the handler goes through
StageOrder ==
  <<"Received", "EmotionDetected", "StrategiesResolved", "Normalized",
    "SlangResolved", "PromptComposed", "ReplyGenerated", "Done">>

C4_ClassificationFailureIsFatal ==
  /\ (last.cls_calls = 1 /\ "EmotionDetected" \notin Range(last.stages)) =>
       /\ last.response.status = 500
       /\ results[last.rid] = 500
       /\ last.response.reply_text = <<>>
       /\ last.lookups = 0
       /\ last.gen_calls = 0
  /\ \A wk \in Workers :
       w[wk].cls_calls = 1 =>
         /\ ~ClsFailed(w[wk].cls)
         /\ w[wk].emotion = w[wk].cls.value[1]
         /\ w[wk].top_emotion = w[wk].cls.value[1][1].label

C4_Witness ==
  /\ last.cls_calls = 1
  /\ last.stages = <<"Received">>
  /\ last.response.status = 500
  /\ last.lookups = 0

\* C5: a request answered with 200 has exactly its child message and its
\* assistant reply committed, the reply being the text returned; a request
\* answered with an error, or still running, has no committed message.
C5_AllOrNothing ==
  /\ \A rid \in 1..Len(results) :
       LET rows == {r \in db : r.rid = rid}
       IN IF results[rid] = 200
          THEN /\ Cardinality(rows) = 2
               /\ \E c \in rows : c.role = "child"
               /\ \E a \in rows : a.role = "assistant"
          ELSE /\ results[rid] \in {0, 400, 500}
               /\ rows = {}
  /\ last.response.status = 200 =>
       \E a \in db : /\ a.rid = last.rid
                     /\ a.role = "assistant"
                     /\ a.text = last.response.reply_text

C5_Witness ==
  /\ last.response.status = 500
  /\ last.gen_calls = 1
  /\ \E rid \in 1..Len(results) : results[rid] = 200

\* C6 (as stated): when generate_content returns a response without text,
\* chat still returns the fallback string, and chat never returns a
\* non-string.
C6_FallbackOnMissingText ==
  \A wk \in Workers :
    w[wk].pc = "store" =>
      /\ ~w[wk].reply_text.none
      /\ (~w[wk].gen.raises /\ w[wk].gen.text.none) =>
           w[wk].reply_text = PyStr(FALLBACK)

\* C7: a handler that has called chat(...) has called generate_content exactly
\* once, whether the call failed or not, and a failed call gave the fallback;
\* before chat(...) no call has been made.
C7_SingleGenerationAttempt ==
  /\ \A wk \in Workers :
       /\ w[wk].pc = "store" =>
            /\ w[wk].gen_calls = 1
            /\ w[wk].gen.raises => w[wk].reply_text = PyStr(FALLBACK)
       /\ w[wk].pc # "store" => w[wk].gen_calls = 0
  /\ last.gen_calls <= 1

C7_Witness ==
  /\ last.gen_calls = 1
  /\ last.response.status = 200
  /\ last.response.reply_text = FALLBACK

\* C8: a request whose message is empty after trimming is answered with 400
\* and has flushed nothing, obtained no pipeline, and called neither the
\* classifier, the strategy lookup nor the generation service; no handler
\* runs on such a message and no row of it exists.
C8_EmptyMessageRejectedFirst ==
  /\ (last.rid # 0 /\ Strip(last.payload) = <<>>) =>
       /\ last.response.status = 400
       /\ results[last.rid] = 400
       /\ last.stages = <<>>
       /\ last.flushes = 0
       /\ last.pipe_calls = 0
       /\ last.cls_calls = 0
       /\ last.lookups = 0
       /\ last.gen_calls = 0
  /\ \A wk \in InFlight : Strip(w[wk].payload) # <<>>
  /\ \A wk \in Workers : \A r \in db \cup w[wk].pending : r.text # <<>>

C8_Witness ==
  /\ last.response.status = 400
  /\ last.payload # <<>>
  /\ Strip(last.payload) = <<>>
  /\ db # {}

\* C9: the history fetched for the context holds at most 20 messages, one
\* line each; the body of a line is the trimmed stored text when that has at
\* most 800 characters, and otherwise its first 800 characters followed by
\* " ...".
C9_ContextBounded ==
  \A wk \in Workers :
    w[wk].pc = "child_history" =>
      LET h == w[wk].history
          ls == w[wk].lines
      IN /\ Len(h) <= MAX_HISTORY_MESSAGES
         /\ Len(ls) = Len(h)
         /\ \A i \in 1..Len(h) :
              LET t == Strip(h[i][2])
                  pre == RoleText(h[i][1]) \o <<":", " ">>
                  body == SubSeq(ls[i], Len(pre) + 1, Len(ls[i]))
              IN /\ IsPrefix(pre, ls[i])
                 /\ Len(body) <= MAX_MSG_CHARS + Len(ELLIPSIS)
                 /\ IF Len(t) > MAX_MSG_CHARS
                    THEN body = SubSeq(t, 1, MAX_MSG_CHARS) \o <<" ", ".", ".", ".">>
                    ELSE body = t

C9_Witness ==
  \E wk \in Workers :
    /\ w[wk].pc = "child_history"
    /\ Len(w[wk].history) = MAX_HISTORY_MESSAGES
    /\ Cardinality({r \in db : r.sid = w[wk].sid}) > MAX_HISTORY_MESSAGES
    /\ \E i \in 1..Len(w[wk].history) :
         Len(Strip(w[wk].history[i][2])) > MAX_MSG_CHARS
    /\ \E i \in 1..Len(w[wk].history) :
         Len(Strip(w[wk].history[i][2])) = MAX_MSG_CHARS

RECURSIVE LineOffset(_, _)
\* number of characters before line i in the newline-joined lines
LineOffset(ls, i) ==
  IF i = 1 THEN 0 ELSE LineOffset(ls, i - 1) + Len(ls[i - 1]) + 1

\* C10: the history a handler fetches is, in ascending timestamp order,
\* exactly the (up to 20) rows of its session with the largest timestamps
\* among the rows it can see; each becomes one line starting "child: " or
\* "assistant: ", and the context is these lines separated by newlines.
C10_MostRecentChronological ==
  [][\A wk \in Workers :
       (w[wk].pc = "history" /\ w'[wk].pc = "child_history") =>
         LET S == {r \in Visible(w[wk]) : r.sid = w[wk].sid}
             top == {r \in S :
                       Cardinality({q \in S : q.ts > r.ts}) < MAX_HISTORY_MESSAGES}
             h == w'[wk].history
             ls == w'[wk].lines
             ctx == w'[wk].history_context
             n == Len(ls)
         IN /\ Len(h) = Cardinality(top)
            /\ n = Len(h)
            /\ \A i \in 1..n :
                 /\ \E r \in top :
                      /\ Cardinality({q \in top : q.ts < r.ts}) = i - 1
                      /\ h[i] = <<r.role, r.text>>
                      /\ r.role \in {"child", "assistant"}
                      /\ IsPrefix(RoleText(r.role) \o <<":", " ">>, ls[i])
                 /\ SubSeq(ctx, LineOffset(ls, i) + 1,
                           LineOffset(ls, i) + Len(ls[i])) = ls[i]
                 /\ i < n => ctx[LineOffset(ls, i) + Len(ls[i]) + 1] = "\n"
            /\ Len(ctx) = IF n = 0 THEN 0 ELSE LineOffset(ls, n) + Len(ls[n])]_vars

C10_Witness ==
  \E wk \in Workers :
    /\ w[wk].pc = "child_history"
    /\ Len(w[wk].history) = MAX_HISTORY_MESSAGES
    /\ w[wk].history[1][1] = "assistant"
    /\ w[wk].history[MAX_HISTORY_MESSAGES] = <<"child", w[wk].message_text>>

WholeWordAt(key, s) == {p \in 1..Len(s) : MatchAt(s, p, key, TRUE)}

\* positions of s where key stands as a whole word followed by " (meaning)"
AnnotatedAt(key, meaning, s) ==
  LET note == <<" ", "(">> \o meaning \o <<")">>
  IN {p \in WholeWordAt(key, s) :
        /\ p + Len(key) + Len(note) - 1 <= Len(s)
        /\ SubSeq(s, p + Len(key), p + Len(key) + Len(note) - 1) = note}

RECURSIVE AddedLength(_, _, _)
\* characters the annotations of the whole-word occurrences in s add
AddedLength(slang_map, s, k) ==
  IF k > Len(slang_map) THEN 0
  ELSE Cardinality(WholeWordAt(slang_map[k][1], s)) * (Len(slang_map[k][2]) + 3)
         + AddedLength(slang_map, s, k + 1)

\* C12 (as stated): detect_and_map_slang turns every whole-word occurrence
\* of every key of the mapping in its input, ignoring case, into the key
\* followed by " (meaning)", adds nothing else, and returns a text without
\* such an occurrence (a key inside a larger word included) unchanged.
C12_EveryWholeWordRewritten ==
  t_op = "detect_and_map_slang" =>
    /\ \A k \in 1..Len(t_map) :
         Cardinality(AnnotatedAt(t_map[k][1], t_map[k][2], t_out))
           = Cardinality(WholeWordAt(t_map[k][1], t_in))
    /\ Len(t_out) = Len(t_in) + AddedLength(t_map, t_in, 1)
    /\ (\A k \in 1..Len(t_map) : WholeWordAt(t_map[k][1], t_in) = {}) =>
         t_out = t_in

\* loading the dataset raised, or no row of it has a key
NoEntries(ds) == ds.raises \/ \A i \in 1..Len(ds.rows) : ds.rows[i].Slang = <<>>

\* C13: when loading the slang dataset fails or yields no entry, the
\* constructor does not raise on that account (it raises only when the
\* classifier model cannot be loaded), the object's SLANG_MAP is empty, and
\* every detect_and_map_slang call on it returns its argument unchanged.
C13_EmptyMappingIsNoOp ==
  (t_op # "none" /\ NoEntries(t_ds)) =>
    /\ t_op \in TextMethods \cup {ModelLoadErr.type}
    /\ t_map = <<>>
    /\ t_op = "detect_and_map_slang" => t_out = t_in

C13_Witness ==
  /\ t_ds.raises
  /\ t_op = "detect_and_map_slang"
  /\ WholeWordAt(<<"f", "i", "r", "e">>, t_in) # {}
  /\ t_out = t_in

\* C14 (as stated): normalize_text called on what normalize_text returned
\* returns it unchanged.
C14_NormalizeIdempotent ==
  [][(t_op = "normalize_text" /\ t_op' = "normalize_text") => t_out' = t_out]_vars

\* C15 (as stated): what normalize_text returns has no whitespace at either
\* end, no two whitespace characters in a row, no upper-case letter, no
\* punctuation character and no contraction left in it, and it is empty for
\* the empty text.
C15_NormalizedIsCanonical ==
  t_op = "normalize_text" =>
    /\ t_out # <<>> => (t_out[1] \notin WS /\ t_out[Len(t_out)] \notin WS)
    /\ \A i \in 1..(Len(t_out) - 1) : ~(t_out[i] \in WS /\ t_out[i + 1] \in WS)
    /\ \A i \in 1..Len(t_out) : t_out[i] \notin UPPER
    /\ \A i \in 1..Len(t_out) : t_out[i] \notin PUNCT
    /\ \A k \in 1..Len(CONTRACTIONS) : WholeWordAt(CONTRACTIONS[k][1], t_out) = {}
    /\ t_in = <<>> => t_out = <<>>

\* position of a label in TAXONOMY
TaxIndex(label) == CHOOSE i \in 1..Len(TAXONOMY) : TAXONOMY[i] = label

C17_PromptEmbedsInputs ==
  [][\A wk \in Workers :
       (w[wk].pc = "chat" /\ w'[wk].pc = "store") =>
         LET p == w'[wk].prompt
             candidates == {STRATEGY_ROWS[k].strategy_name :
                              k \in {i \in 1..Len(STRATEGY_ROWS) :
                                       LowerName(STRATEGY_ROWS[i].emotion_name)
                                         = w[wk].top_emotion}}
         IN /\ p.emotion = w[wk].emotion
            /\ p.emotion = w[wk].cls.value[1]
            /\ p.context = w[wk].history_context
            /\ p.message = detect_and_map_slang(pipeline.SLANG_MAP,
                                                normalize_text(w[wk].message_text))
            /\ p.strategies = w[wk].strategies_string
            /\ \A name \in candidates :
                 \E i \in 1..Len(p.strategies) : p.strategies[i].name = name
            /\ w'[wk].gen_calls = w[wk].gen_calls + 1]_vars

C17_Witness ==
  \E wk \in Workers :
    /\ w[wk].pc = "store"
    /\ Len(w[wk].prompt.strategies) = 2
    /\ w[wk].prompt.strategies[2].name = "journaling"
    /\ w[wk].prompt.context # <<>>
    /\ w[wk].prompt.message # w[wk].message_text
    /\ w[wk].prompt.emotion[1].label = "sadness"

\* C18 (as stated): when the text generate_content returned holds a reasoning
\* delimiter, chat returns what follows the last delimiter, so what it
\* returns holds no delimiter and nothing that stood before one.
C18_ReplyAfterLastDelimiter ==
  (t_op = "chat" /\ THINK_END \in Range(t_in)) =>
    LET p == CHOOSE i \in 1..Len(t_in) :
               /\ t_in[i] = THINK_END
               /\ \A j \in (i + 1)..Len(t_in) : t_in[j] # THINK_END
    IN /\ THINK_END \notin Range(t_out)
       /\ Strip(t_out) = Strip(SubSeq(t_in, p + 1, Len(t_in)))

\* C19 (as stated): when generate_content succeeds with a text, chat returns
\* that text without its leading and trailing whitespace, otherwise unchanged.
C19_ReplyTrimmed ==
  (t_op = "chat" /\ THINK_END \notin Range(t_in)) => t_out = Strip(t_in)

\* C20: in a process without GOOGLE_API_KEY the constructor raises before it
\* sets any attribute, whatever the dataset and the classifier model would
\* do; the module-level pipeline stays unset and no object is ever built; no
\* handler gets past get_pipeline, so none calls the classifier, the strategy
\* lookup or chat, and every request that asked for the pipeline is answered
\* with the error of the missing key.
C20_NoPipelineWithoutKey ==
  ~env_key =>
    /\ \A ds \in DatasetOutcomes, model_ok \in BOOLEAN :
         /\ pipeline_init(env_key, ds, model_ok).raises
         /\ pipeline_init(env_key, ds, model_ok).set = <<>>
    /\ pipeline = NoPipeline
    /\ built = 0
    /\ \A wk \in Workers :
         /\ w[wk].pc \notin {"detect", "strategies", "chat", "store"}
         /\ w[wk].cls_calls = 0 /\ w[wk].lookups = 0 /\ w[wk].gen_calls = 0
    /\ \A rid \in 1..Len(results) : results[rid] # 200
    /\ last.pipe_calls > 0 =>
         /\ last.pipe_calls = 1
         /\ last.response.status = 500
         /\ last.response.detail = <<"Internal error: ", MissingKeyErr.type,
                                     ": ", MissingKeyErr.msg>>
         /\ last.cls_calls = 0 /\ last.lookups = 0 /\ last.gen_calls = 0

C20_Witness ==
  /\ ~env_key
  /\ Len(results) = MaxRequests
  /\ \A rid \in 1..Len(results) : results[rid] = 500
  /\ last.rid = MaxRequests
  /\ last.pipe_calls = 1
  /\ pipeline = NoPipeline

\* C21 (as stated): the process-wide pipeline (slang mapping and classifier)
\* is built exactly once, on first use, and the module-level object is never
\* replaced afterwards: no step of any handler builds a second pipeline or
\* rebinds the global once it is set, so all requests read the same instance.
C21_PipelineInitializedOnce ==
  [][/\ built' <= 1
     /\ pipeline # NoPipeline => pipeline' = pipeline]_vars

\* C22 (as stated): once update_session has set a session to closed, no chat
\* request received afterwards adds a message to it: every committed row of a
\* closed session belongs to a request received before the session was closed.
C22_ClosedSessionAcceptsNoMessage ==
  \A m \in db : sess_status[m.sid] = "closed" => m.rid <= closed_after[m.sid]

MoodHasEntry(table, account_id, mood_date) ==
  mood_rows(table, account_id, mood_date) # {}

MoodKeys(table) == {<<r.account_id, r.mood_date>> : r \in table}

\* the step answers a mood request of the given operation
MoodAnswered(op) == mood_last'.n # mood_last.n /\ mood_last'.op = op

C24_SlangAgainstOriginalText ==
  t_op = "detect_and_map_slang" =>
    /\ t_out = detect_and_map_slang(Reversed(t_map), t_in)
    /\ \A k \in 1..Len(t_map) :
         Cardinality(AnnotatedAt(t_map[k][1], t_map[k][2], t_out))
           <= Cardinality(WholeWordAt(t_map[k][1], t_in))

\* C25: a request whose generate_content call raised goes on like any other:
\* its final step answers 200 with the fallback sentence as reply_text and
\* commits the child message together with an assistant row of the session
\* holding the fallback (only a failure of the database on that last flush
\* makes it a 500 that stores nothing); in later requests of the session the
\* committed fallback row is one of the history lines, "assistant: " followed
\* by the sentence, and the line is part of the context put in the prompt.
C25_FallbackStoredAndReplayed ==
  [][\A wk \in Workers :
       /\ (w[wk].pc = "store" /\ w[wk].gen.raises /\ w'[wk] # w[wk]) =>
            /\ w[wk].reply_text = PyStr(FALLBACK)
            /\ w'[wk] = Idle
            /\ last'.rid = w[wk].rid
            /\ \/ /\ last'.response = [status |-> 200, reply_text |-> FALLBACK,
                                       detail |-> <<>>]
                  /\ \E a \in db' \ db :
                       /\ a.sid = w[wk].sid /\ a.rid = w[wk].rid
                       /\ a.role = "assistant" /\ a.text = FALLBACK
                  /\ \E c \in db' \ db :
                       /\ c.sid = w[wk].sid /\ c.rid = w[wk].rid
                       /\ c.role = "child" /\ c.text = w[wk].message_text
               \/ /\ last'.response.status = 500
                  /\ last'.response.detail[2] = DbError.type
                  /\ db' = db
       /\ (w[wk].pc = "history" /\ w'[wk].pc = "child_history") =>
            \A r \in db :
              (r.sid = w[wk].sid /\ r.role = "assistant" /\ r.text = FALLBACK) =>
                /\ \E i \in 1..Len(w'[wk].lines) :
                     /\ w'[wk].history[i] = <<"assistant", FALLBACK>>
                     /\ w'[wk].lines[i] = RoleText("assistant") \o <<":", " ">> \o FALLBACK
                /\ w'[wk].history_context = Join(w'[wk].lines, <<"\n">>)
       /\ (w[wk].pc = "chat" /\ w'[wk].pc = "store") =>
            w'[wk].prompt.context = w[wk].history_context]_vars

\* the second request of a session has the fallback stored for the first one
\* in its context, and its own generation call has failed as well
C25_Witness ==
  \E wk \in Workers :
    /\ w[wk].pc = "store"
    /\ w[wk].gen.raises
    /\ \E r \in db : r.sid = w[wk].sid /\ r.role = "assistant" /\ r.text = FALLBACK
    /\ results[1] = 200
    /\ w[wk].prompt.context =
         <<"c", "h", "i", "l", "d", ":", " ", "I", "'", "m", " ", "S", "a", "d", "!", "\n">>
           \o RoleText("assistant") \o <<":", " ">> \o FALLBACK
           \o <<"\n", "c", "h", "i", "l", "d", ":", " ", "I", "'", "m", " ", "S", "a", "d", "!">>

\* the rows of the handler's own session among those it can see
OwnRows(rec) == {r \in Visible(rec) : r.sid = rec.sid}

\* C26: whatever rows other sessions hold and whatever the other worker is
\* doing, the history a handler fetches is made of rows of its own session
\* only, and its conversation context, its child-history context and thus the
\* classifier input are what the same queries give on a table that holds the
\* rows of its session alone; the prompt carries exactly that context.
C26_SessionIsolation ==
  [][\A wk \in Workers :
       /\ (w[wk].pc = "history" /\ w'[wk].pc = "child_history") =>
            LET own == history_rows(OwnRows(w[wk]), w[wk].sid)
            IN /\ Len(w'[wk].history) <= Cardinality(OwnRows(w[wk]))
               /\ \A i \in 1..Len(w'[wk].history) :
                    \E r \in OwnRows(w[wk]) :
                      w'[wk].history[i] = <<r.role, r.text>>
               /\ w'[wk].history_context =
                    Join(history_lines([i \in 1..Len(own) |->
                                          <<own[i].role, own[i].text>>]),
                         <<"\n">>)
       /\ (w[wk].pc = "child_history" /\ w'[wk].pc = "get_pipeline") =>
            LET own == child_history_rows(OwnRows(w[wk]), w[wk].sid)
            IN w'[wk].child_history_context =
                 Join(child_lines([i \in 1..Len(own) |-> own[i].text]), <<"\n">>)
       /\ (w[wk].pc = "detect" /\ w'[wk].pc = "strategies") =>
            w'[wk].cls_input = w[wk].child_history_context
       /\ (w[wk].pc = "chat" /\ w'[wk].pc = "store") =>
            /\ w'[wk].prompt.context = w[wk].history_context
            /\ w'[wk].prompt.emotion = w[wk].emotion]_vars

\* the first request has built its contexts from its own message alone after
\* the second request, received later on the other session, has run
\* concurrently and committed its child and assistant messages
C26_Witness ==
  \E wk \in Workers :
    /\ w[wk].pc = "get_pipeline"
    /\ w[wk].rid = 1
    /\ \E r \in db : r.sid # w[wk].sid /\ r.rid = 2 /\ r.role = "assistant"
    /\ w[wk].child_history_context = w[wk].message_text
    /\ w[wk].history_context = RoleText("child") \o <<":", " ">> \o w[wk].message_text

\* the step answers an invite or link request of the given operation with
\* the given status
InviteAnswered(op, status) ==
  /\ inv_last'.n # inv_last.n
  /\ inv_last'.op = op
  /\ inv_last'.status = status

\* C27 (as stated): every invite is created invited; a status changes only
\* from invited, to accepted, revoked or expired, so an invite that is
\* accepted, revoked or expired keeps its status in every step of every
\* handler; and the step in which accept_invite succeeds finds its invite
\* invited and not past its expiry time.
C27_InviteStatusFinal ==
  [][/\ \A i \in 1..Len(invites') :
          IF i <= Len(invites)
          THEN \/ invites'[i].status = invites[i].status
               \/ /\ invites[i].status = "invited"
                  /\ invites'[i].status \in INVITE_FINAL
          ELSE invites'[i].status = "invited"
     /\ InviteAnswered("accept_invite", 200) =>
          /\ invites[inv_last'.invite].status = "invited"
          /\ ~(invites[inv_last'.invite].expires_at < now)]_vars

\* the invites of one guardian for one e-mail address that are invited and
\* not past their expiry time
PendingInvites(guardian_id, invitee_email) ==
  {i \in 1..Len(invites) :
     /\ invites[i].guardian_id = guardian_id
     /\ invites[i].invitee_email = invitee_email
     /\ invites[i].status = "invited"
     /\ ~(invites[i].expires_at < now)}

\* C28 (as stated): whatever the interleaving of the handlers, concurrent
\* create_invite calls of one guardian for one address included, the table
\* never holds two invited, unexpired invites of one guardian for one address.
C28_OnePendingInvite ==
  \A i \in 1..Len(invites) :
    Cardinality(PendingInvites(invites[i].guardian_id, invites[i].invitee_email)) <= 1

\* C29 (as stated): the step in which accept_invite succeeds leaves exactly
\* one link row for (inviting guardian, caller), and that row is active, and
\* leaves the invite accepted with the caller as accepted_account_id; a step
\* in which accept_invite is answered with an error changes no invite, no
\* link and no account.
C29_AcceptLinksOnce ==
  [][/\ InviteAnswered("accept_invite", 200) =>
          LET guardian_id == inv_last'.other
              child_id == inv_last'.account_id
              link == link_rows(links', guardian_id, child_id)
          IN /\ Cardinality(link) = 1
             /\ \A l \in link : l.link_status = "active"
             /\ invites'[inv_last'.invite].status = "accepted"
             /\ invites'[inv_last'.invite].accepted_account_id = child_id
     /\ (inv_last'.n # inv_last.n /\ inv_last'.op = "accept_invite"
         /\ inv_last'.status # 200) =>
          /\ invites' = invites
          /\ links' = links
          /\ acct_type' = acct_type]_vars

\* the children with an active link to the guardian who accepted an invite
\* of the guardian for the address
LinkedAcceptors(guardian_id, invitee_email) ==
  {invites[i].accepted_account_id : i \in
     {i \in 1..Len(invites) :
        /\ invites[i].guardian_id = guardian_id
        /\ invites[i].invitee_email = invitee_email
        /\ invites[i].status = "accepted"
        /\ \E l \in link_rows(links, guardian_id,
                              invites[i].accepted_account_id) :
             l.link_status = "active"}}

\* C30 (as stated): with requests served one after the other, a create_invite
\* of a guardian for an address is answered 409 whenever the guardian has an
\* active link to a child who accepted an earlier invite of that guardian for
\* that address; and the accept_invite of a child whose link to the guardian
\* was revoked makes that one link row active again instead of adding a row.
C30_ActiveLinkBlocksInvite ==
  [][/\ (/\ inv_last'.n # inv_last.n
         /\ inv_last'.op = "create_invite"
         /\ LinkedAcceptors(inv_last'.account_id, inv_last'.email) # {})
          => inv_last'.status = 409
     /\ (/\ InviteAnswered("accept_invite", 200)
         /\ \E l \in link_rows(links, inv_last'.other, inv_last'.account_id) :
              l.link_status = "revoked")
          => /\ Cardinality(link_rows(links', inv_last'.other,
                                      inv_last'.account_id)) = 1
             /\ \A l \in link_rows(links', inv_last'.other,
                                   inv_last'.account_id) :
                  l.link_status = "active"]_vars

====
